---------------------------- MODULE Spec2Model ----------------------------
(***************************************************************************)
(* A model of src/src/modules/SignedOperations.ts: the EIP-712 hashing of  *)
(* Operations, the cancel hash, the three signing protocols that go to an  *)
(* external signer, and the signature verification predicates.             *)
(*                                                                         *)
(* Keccak-256 is modelled symbolically: a digest is the term               *)
(* <<"keccak", bytes>> over the tightly packed byte string that was        *)
(* hashed, so two digests are equal exactly when the packed inputs are     *)
(* (the collision-freedom the specification assumes).  A signature is the  *)
(* term of the key and the digest it was made over; recovery over another  *)
(* digest yields an address that belongs to no account.                    *)
(***************************************************************************)
EXTENDS Integers, Sequences, FiniteSets, TLC

VARIABLES
    networkId,      \* networkId[self]: the instance's private networkId field
    proxyAddress,   \* proxyAddress[self]: contracts.signedOperationProxy.options.address
    operation,      \* operation[self]: the Operation the instance's caller holds
    digests,        \* digests[self]: what the hashing functions last returned
    pc,             \* position of the one asynchronous signing call
    call,           \* the signing call in progress or last finished
    request,        \* the request handed to the external signer
    requests,       \* requests issued to the external signer by the current call
    outcome,        \* what the last finished call returned or threw
    signed,         \* the last typed signature obtained, and what it was made for
    previous,       \* the structured-data request answered last
    domainLog       \* the two latest getDomainHash results, each with the configuration read

vars == <<networkId, proxyAddress, operation, digests, pc, call, request,
          requests, outcome, signed, previous, domainLog>>

---------------------------------------------------------------------------
(* Bounds of the model *)

MaxActions == 2
MaxUint == 1
NumAddr == 2
MaxNetworkId == 2
MaxTime == 2
BigUint == 12

Instances == {1, 2}
Uints == 0..MaxUint
NetworkIds == 1..MaxNetworkId
AddrVals == 0..NumAddr

(* An address string: its 160-bit value and the letter case it is written  *)
(* in.  The zero address has no letters, hence no mixed-case spelling.     *)
Addresses ==
    {[val |-> v, cs |-> c] : v \in AddrVals, c \in {"lower", "mixed"}}
        \ {[val |-> 0, cs |-> "mixed"]}

LowerAddresses == {a \in Addresses : a.cs = "lower"}

Lower(v) == [val |-> v, cs |-> "lower"]

ByteStrings == {<<>>, <<1>>}

---------------------------------------------------------------------------
(* Type strings *)

EIP712_DOMAIN_STRING ==
    "EIP712Domain(string name,string version,uint256 chainId,address verifyingContract)"

EIP712_ASSET_AMOUNT_STRING ==
    "AssetAmount(bool sign,uint8 denomination,uint8 ref,uint256 value)"

EIP712_ACTION_STRING ==
    "Action(uint8 actionType,address accountOwner,uint256 accountNumber,AssetAmount assetAmount,uint256 primaryMarketId,uint256 secondaryMarketId,address otherAddress,address otherAccountOwner,uint256 otherAccountNumber,bytes data)AssetAmount(bool sign,uint8 denomination,uint8 ref,uint256 value)"

EIP712_OPERATION_STRING ==
    "Operation(Action[] actions,uint256 expiration,uint256 salt,address sender)Action(uint8 actionType,address accountOwner,uint256 accountNumber,AssetAmount assetAmount,uint256 primaryMarketId,uint256 secondaryMarketId,address otherAddress,address otherAccountOwner,uint256 otherAccountNumber,bytes data)AssetAmount(bool sign,uint8 denomination,uint8 ref,uint256 value)"

---------------------------------------------------------------------------
(* Values a hashing call can produce *)

\* soliditySha3 returns null when the packed input is the empty byte string
Null == <<"null">>
\* the call threw
Throw == <<"throw">>
\* no call made yet
None == <<"none">>

Keccak(bytes) == <<"keccak", bytes>>

IsDigest(x) == Len(x) = 2 /\ x[1] = "keccak"

---------------------------------------------------------------------------
(* Decimal strings: BigNumber(x).toFixed(0), and their parse by soliditySha3, *)
(* which reads a number and a decimal string alike into a big integer        *)

RECURSIVE Dec(_)
Dec(n) == IF n < 10 THEN <<n>> ELSE Dec(n \div 10) \o <<n % 10>>

RECURSIVE ParseDec(_)
ParseDec(s) ==
    IF Len(s) = 0 THEN 0
    ELSE 10 * ParseDec(SubSeq(s, 1, Len(s) - 1)) + s[Len(s)]

\* a string that is a decimal numeral
Numeral(n) == [digits |-> Dec(n)]

\* Helpers.toString: new BigNumber(input).toFixed(0)
toString(n) == Numeral(n)

\* BytesHelper.addressToBytes32: the address left-padded to 32 bytes
addressToBytes32(a) == <<"pad", a.val>>

---------------------------------------------------------------------------
(* web3-utils soliditySha3: tightly pack the typed arguments, then hash *)

IntWord(n) == <<"int", n>>

RECURSIVE BytesOf(_)
BytesOf(bs) ==
    IF Len(bs) = 0 THEN <<>> ELSE <<(<<"byte", Head(bs)>>)>> \o BytesOf(Tail(bs))

\* the packed bytes of one {t, v} argument
Pack(arg) ==
    CASE arg.t = "bytes32" ->
           IF arg.v[1] = "pad" THEN <<IntWord(arg.v[2])>> ELSE <<arg.v>>
      [] arg.t = "uint256" -> <<IntWord(ParseDec(arg.v.digits))>>
      [] arg.t = "bytes"   -> BytesOf(arg.v)
      [] arg.t = "string"  -> <<(<<"utf8", arg.v>>)>>

RECURSIVE PackAll(_)
PackAll(args) ==
    IF Len(args) = 0 THEN <<>> ELSE Pack(Head(args)) \o PackAll(Tail(args))

\* an argument whose evaluation threw, or a bytes32 whose value is null
\* (value.replace on null is a TypeError)
Unpackable(arg) == arg.t = "bytes32" /\ (arg.v = Null \/ arg.v = Throw)

soliditySha3(args) ==
    IF \E i \in DOMAIN args : Unpackable(args[i]) THEN Throw
    ELSE LET bytes == PackAll(args)
         IN  IF bytes = <<>> THEN Null ELSE Keccak(bytes)

B32(v) == [t |-> "bytes32", v |-> v]
U256(v) == [t |-> "uint256", v |-> v]

\* BytesHelper.hashString
hashString(s) == soliditySha3(<<[t |-> "string", v |-> s]>>)

\* BytesHelper.hashBytes: total, the empty byte string included
hashBytes(bs) ==
    IF bs = <<>> THEN Keccak(<<>>) ELSE soliditySha3(<<[t |-> "bytes", v |-> bs]>>)

---------------------------------------------------------------------------
(* Hashing functions *)

getAssetAmountHash(amount) ==
    soliditySha3(<<
        B32(hashString(EIP712_ASSET_AMOUNT_STRING)),
        U256(toString(IF amount.sign THEN 1 ELSE 0)),
        U256(toString(amount.denomination)),
        U256(toString(amount.ref)),
        U256(toString(amount.value)) >>)

getActionHash(action) ==
    soliditySha3(<<
        B32(hashString(EIP712_ACTION_STRING)),
        U256(toString(action.actionType)),
        B32(addressToBytes32(action.primaryAccountOwner)),
        U256(toString(action.primaryAccountNumber)),
        B32(getAssetAmountHash(action.amount)),
        U256(toString(action.primaryMarketId)),
        U256(toString(action.secondaryMarketId)),
        B32(addressToBytes32(action.otherAddress)),
        B32(addressToBytes32(action.secondaryAccountOwner)),
        U256(toString(action.secondaryAccountNumber)),
        B32(hashBytes(action.data)) >>)

getActionsHash(actions) ==
    soliditySha3([i \in DOMAIN actions |-> B32(getActionHash(actions[i]))])

\* a getDomainHash that returns the digest of the call before, if there was one
getDomainHashCached(self) ==
    IF domainLog # <<>>
    THEN domainLog[Len(domainLog)].domainHash
    ELSE soliditySha3(<<B32(hashString(EIP712_DOMAIN_STRING)),
                        B32(hashString("SignedOperationProxy")),
                        B32(hashString("1.0")),
                        U256(Numeral(networkId[self])),
                        B32(addressToBytes32(proxyAddress[self]))>>)

getDomainHash(self) ==
    soliditySha3(<<
        B32(hashString(EIP712_DOMAIN_STRING)),
        B32(hashString("SignedOperationProxy")),
        B32(hashString("1.0")),
        U256(Numeral(networkId[self])),
        B32(addressToBytes32(proxyAddress[self])) >>)

\* a variant that also hashes the signer
getOperationHashWithSigner(self, op) ==
    LET basicHash == soliditySha3(<<
            B32(hashString(EIP712_OPERATION_STRING)),
            B32(getActionsHash(op.actions)),
            U256(toString(op.expiration)),
            U256(toString(op.salt)),
            B32(addressToBytes32(op.sender)),
            B32(addressToBytes32(op.signer)) >>)
        retVal == soliditySha3(<<
            [t |-> "bytes", v |-> <<25, 1>>],
            B32(getDomainHash(self)),
            B32(basicHash) >>)
    IN  retVal

getOperationHash(self, op) ==
    LET basicHash == soliditySha3(<<
            B32(hashString(EIP712_OPERATION_STRING)),
            B32(getActionsHash(op.actions)),
            U256(toString(op.expiration)),
            U256(toString(op.salt)),
            B32(addressToBytes32(op.sender)) >>)
        retVal == soliditySha3(<<
            [t |-> "bytes", v |-> <<25, 1>>],
            B32(getDomainHash(self)),
            B32(basicHash) >>)
    IN  retVal

operationHashToCancelOperationHash(operationHash) ==
    soliditySha3(<<
        [t |-> "string", v |-> "cancel"],
        B32(operationHash) >>)

---------------------------------------------------------------------------
(* Signatures *)

\* what a call gives back: a value, or an exception with its message
Return(v) == [threw |-> FALSE, value |-> v]
Raise(e) == [threw |-> TRUE, error |-> e]

NoCall == [method |-> "none"]
NoRequest == [method |-> "none"]
NoOutcome == [method |-> "none"]
NoSignature == [kind |-> "none"]

\* the accounts of the external signer: account v signs with key v
Keys == 1..NumAddr
\* the address a key recovers to, in checksum spelling
AddressOfKey(k) == [val |-> k, cs |-> "mixed"]
\* the address recovered from a signature over another digest
NoAccount == [val |-> 0 - 1, cs |-> "mixed"]

\* a raw 65-byte signature by key k over digest d; anything else is malformed
RawSignature(k, d) == <<"sig", k, d>>
Malformed == <<"malformed">>

SIGNATURE_TYPES == {"NO_PREPEND", "DECIMAL", "HEXADECIMAL"}

\* the digest a personal-sign signer signs for a 32-byte message
PREPEND_DEC == "\\x19Ethereum Signed Message:\\n32"
PREPEND_HEX == "\\x19Ethereum Signed Message:\\n\\x20"
PrependedHash(prefix, hash) ==
    soliditySha3(<<[t |-> "string", v |-> prefix], B32(hash)>>)

\* SignatureHelper.createTypedSignature: the raw signature and its tag
createTypedSignature(signature, sigType) == [raw |-> signature, tag |-> sigType]

\* SignatureHelper.ecRecoverTypedSignature: strip the tag, pick the digest the
\* tag says was signed, recover
ecRecoverTypedSignature(hash, typedSignature) ==
    IF typedSignature.raw = Malformed THEN Raise("InvalidSignature")
    ELSE IF typedSignature.tag \notin SIGNATURE_TYPES
         THEN Raise("UnsupportedSignatureType")
    ELSE LET prependedHash ==
                 CASE typedSignature.tag = "NO_PREPEND" -> hash
                   [] typedSignature.tag = "DECIMAL" -> PrependedHash(PREPEND_DEC, hash)
                   [] typedSignature.tag = "HEXADECIMAL" -> PrependedHash(PREPEND_HEX, hash)
         IN  IF typedSignature.raw[3] = prependedHash
             THEN Return(AddressOfKey(typedSignature.raw[2]))
             ELSE Return(NoAccount)

\* BytesHelper.addressesAreEqual: both spellings lower-cased, then compared
toLowerCase(a) == [a EXCEPT !.cs = "lower"]
addressesAreEqual(addressOne, addressTwo) ==
    toLowerCase(addressOne) = toLowerCase(addressTwo)

---------------------------------------------------------------------------
(* Signature verification *)

operationByHashHasValidSignature(operationHash, typedSignature, expectedSigner) ==
    LET signer == ecRecoverTypedSignature(operationHash, typedSignature)
    IN  IF signer.threw THEN signer
        ELSE Return(addressesAreEqual(signer.value, expectedSigner))

operationHasValidSignature(self, signedOperation) ==
    LET operationHash == getOperationHash(self, signedOperation)
    IN  IF operationHash = Throw THEN Raise("TypeError")
        ELSE operationByHashHasValidSignature(
                 operationHash, signedOperation.typedSignature, signedOperation.signer)

cancelOperationByHashHasValidSignature(operationHash, typedSignature, expectedSigner) ==
    LET cancelHash == operationHashToCancelOperationHash(operationHash)
        signer == ecRecoverTypedSignature(cancelHash, typedSignature)
    IN  IF signer.threw THEN signer
        ELSE Return(addressesAreEqual(signer.value, expectedSigner))

cancelOperationHasValidSignature(self, op, typedSignature) ==
    LET operationHash == getOperationHash(self, op)
    IN  IF operationHash = Throw THEN Raise("TypeError")
        ELSE cancelOperationByHashHasValidSignature(
                 operationHash, typedSignature, op.signer)

---------------------------------------------------------------------------
(* Operations the callers hold *)

Action1 ==
    [actionType |-> 0, primaryAccountOwner |-> Lower(1), primaryAccountNumber |-> 0,
     amount |-> [sign |-> FALSE, denomination |-> 0, ref |-> 0, value |-> 0],
     primaryMarketId |-> 0, secondaryMarketId |-> 0, otherAddress |-> Lower(0),
     secondaryAccountOwner |-> Lower(1), secondaryAccountNumber |-> 0, data |-> <<>>]

Action2 ==
    [actionType |-> 1, primaryAccountOwner |-> Lower(1), primaryAccountNumber |-> 1,
     amount |-> [sign |-> TRUE, denomination |-> 0, ref |-> 1, value |-> 1],
     primaryMarketId |-> 0, secondaryMarketId |-> 1, otherAddress |-> Lower(1),
     secondaryAccountOwner |-> [val |-> 1, cs |-> "mixed"],
     secondaryAccountNumber |-> 0, data |-> <<1>>]

SeedActions == {Action1, Action2}

RECURSIVE ListsUpTo(_)
ListsUpTo(n) ==
    IF n = 0 THEN {<<>>}
    ELSE LET shorter == ListsUpTo(n - 1)
         IN  shorter \cup {Append(l, a) : l \in {x \in shorter : Len(x) = n - 1},
                                          a \in SeedActions}

ActionLists == ListsUpTo(MaxActions)

HashSeeds ==
    {[actions |-> l, expiration |-> 0, salt |-> 0, sender |-> Lower(0),
      signer |-> Lower(1)] : l \in ActionLists}

UintFields ==
    {"actionType", "primaryAccountNumber", "primaryMarketId", "secondaryMarketId",
     "secondaryAccountNumber"}
AmountUintFields == {"denomination", "ref", "value"}
AddressFields == {"primaryAccountOwner", "otherAddress", "secondaryAccountOwner"}

\* op with field f of its i-th action set to v
WithActionField(op, i, f, v) ==
    [op EXCEPT !.actions[i] = [@ EXCEPT ![f] = v]]

WithAmountField(op, i, f, v) ==
    [op EXCEPT !.actions[i].amount = [@ EXCEPT ![f] = v]]

Swapped(l) == [i \in DOMAIN l |-> IF i = 1 THEN l[2] ELSE IF i = 2 THEN l[1] ELSE l[i]]

---------------------------------------------------------------------------
(* What the five hashing functions return for one operation *)

HashAll(self, op) ==
    [operationHash |-> getOperationHash(self, op),
     actionsHash   |-> getActionsHash(op.actions),
     domainHash    |-> getDomainHash(self),
     actionHashes  |-> [i \in DOMAIN op.actions |-> getActionHash(op.actions[i])],
     amountHashes  |-> [i \in DOMAIN op.actions |->
                            getAssetAmountHash(op.actions[i].amount)]]

NoDigests ==
    [operationHash |-> None, actionsHash |-> None, domainHash |-> None,
     actionHashes |-> <<>>, amountHashes |-> <<>>]

signVars == <<pc, call, request, requests, outcome, signed, previous>>

\* the constructor: a new instance over the same contracts object
Construct(self, nid) ==
    /\ networkId' = [networkId EXCEPT ![self] = nid]
    /\ digests' = [digests EXCEPT ![self] = NoDigests]
    /\ UNCHANGED <<proxyAddress, operation, signVars, domainLog>>

\* the contracts object is pointed at another deployment
SetProxyAddress(self, a) ==
    /\ proxyAddress' = [proxyAddress EXCEPT ![self] = a]
    /\ digests' = [digests EXCEPT ![self] = NoDigests]
    /\ UNCHANGED <<networkId, operation, signVars, domainLog>>

\* the caller of instance 2, holding the same operation as the caller of
\* instance 1, alters one field of its copy
Alter(op) ==
    /\ operation[2] = operation[1]
    /\ op # operation[1]
    /\ operation' = [operation EXCEPT ![2] = op]
    /\ digests' = [digests EXCEPT ![2] = NoDigests]
    /\ UNCHANGED <<networkId, proxyAddress, signVars, domainLog>>

AlterExpiration == \E v \in Uints : Alter([operation[1] EXCEPT !.expiration = v])
AlterSalt == \E v \in Uints : Alter([operation[1] EXCEPT !.salt = v])
AlterSender == \E a \in LowerAddresses : Alter([operation[1] EXCEPT !.sender = a])
AlterSigner == \E a \in Addresses : Alter([operation[1] EXCEPT !.signer = a])
AlterActionUint ==
    \E i \in DOMAIN operation[1].actions, f \in UintFields, v \in Uints :
        Alter(WithActionField(operation[1], i, f, v))
AlterActionAddress ==
    \E i \in DOMAIN operation[1].actions, f \in AddressFields, a \in Addresses :
        Alter(WithActionField(operation[1], i, f, a))
AlterActionData ==
    \E i \in DOMAIN operation[1].actions, d \in ByteStrings :
        Alter(WithActionField(operation[1], i, "data", d))
AlterAmountSign ==
    \E i \in DOMAIN operation[1].actions, b \in BOOLEAN :
        Alter(WithAmountField(operation[1], i, "sign", b))
AlterAmountUint ==
    \E i \in DOMAIN operation[1].actions, f \in AmountUintFields, v \in Uints :
        Alter(WithAmountField(operation[1], i, f, v))
AlterAppendAction ==
    \E a \in SeedActions :
        /\ Len(operation[1].actions) < MaxActions
        /\ Alter([operation[1] EXCEPT !.actions = Append(@, a)])
AlterDropAction ==
    /\ Len(operation[1].actions) > 0
    /\ Alter([operation[1] EXCEPT !.actions = SubSeq(@, 1, Len(@) - 1)])
AlterSwapActions ==
    /\ Len(operation[1].actions) >= 2
    /\ Alter([operation[1] EXCEPT !.actions = Swapped(@)])

\* the caller runs the hashing functions on the operation it holds
HashOperation(self) ==
    /\ digests[self] = NoDigests
    /\ digests' = [digests EXCEPT ![self] = HashAll(self, operation[self])]
    /\ UNCHANGED <<networkId, proxyAddress, operation, signVars, domainLog>>

IdleSign ==
    /\ pc = "idle"
    /\ call = NoCall
    /\ request = NoRequest
    /\ requests = 0
    /\ outcome = NoOutcome
    /\ signed = NoSignature
    /\ previous = NoRequest

InitHash ==
    /\ networkId = [self \in Instances |-> 1]
    /\ proxyAddress = [self \in Instances |-> Lower(1)]
    /\ operation \in [Instances -> HashSeeds]
    /\ digests = [self \in Instances |-> NoDigests]
    /\ domainLog = <<>>
    /\ IdleSign

NextHash ==
    \/ \E nid \in NetworkIds : Construct(2, nid)
    \/ \E a \in LowerAddresses : SetProxyAddress(2, a)
    \/ AlterExpiration
    \/ AlterSalt
    \/ AlterSender
    \/ AlterSigner
    \/ AlterActionUint
    \/ AlterActionAddress
    \/ AlterActionData
    \/ AlterAmountSign
    \/ AlterAmountUint
    \/ AlterAppendAction
    \/ AlterDropAction
    \/ AlterSwapActions
    \/ \E self \in Instances : HashOperation(self)

SpecHash == InitHash /\ [][NextHash]_vars

---------------------------------------------------------------------------
(* The structured-data signing request *)

EIP712_DOMAIN_STRUCT ==
    << <<"string", "name">>, <<"string", "version">>, <<"uint256", "chainId">>,
       <<"address", "verifyingContract">> >>

EIP712_OPERATION_STRUCT ==
    << <<"Action[]", "actions">>, <<"uint256", "expiration">>, <<"uint256", "salt">>,
       <<"address", "sender">> >>

EIP712_ACTION_STRUCT ==
    << <<"uint8", "actionType">>, <<"address", "accountOwner">>,
       <<"uint256", "accountNumber">>, <<"AssetAmount", "assetAmount">>,
       <<"uint256", "primaryMarketId">>, <<"uint256", "secondaryMarketId">>,
       <<"address", "otherAddress">>, <<"address", "otherAccountOwner">>,
       <<"uint256", "otherAccountNumber">>, <<"bytes", "data">> >>

EIP712_ASSET_AMOUNT_STRUCT ==
    << <<"bool", "sign">>, <<"uint8", "denomination">>, <<"uint8", "ref">>,
       <<"uint256", "value">> >>

\* BigNumber.toFixed(0) of an integer
toFixed0(n) == Numeral(n)

\* toString applied to an address string: BigNumber reads the 0x-prefixed hex
\* numeral as a number, and the result is its decimal numeral
toStringOfAddress(a) == toString(a.val)

\* a variant of the action mapping that lower-cases the address fields
actionDataLowerCased(action) ==
    [actionType |-> toString(action.actionType),
     accountOwner |-> toLowerCase(action.primaryAccountOwner),
     accountNumber |-> toString(action.primaryAccountNumber),
     assetAmount |->
        [sign |-> action.amount.sign,
         denomination |-> toString(action.amount.denomination),
         ref |-> toString(action.amount.ref),
         value |-> toString(action.amount.value)],
     primaryMarketId |-> toString(action.primaryMarketId),
     secondaryMarketId |-> toString(action.secondaryMarketId),
     otherAddress |-> toStringOfAddress(action.otherAddress),
     otherAccountOwner |-> toLowerCase(action.secondaryAccountOwner),
     otherAccountNumber |-> toString(action.secondaryAccountNumber),
     data |-> action.data]

actionData(action) ==
    [actionType |-> toString(action.actionType),
     accountOwner |-> action.primaryAccountOwner,
     accountNumber |-> toString(action.primaryAccountNumber),
     assetAmount |->
        [sign |-> action.amount.sign,
         denomination |-> toString(action.amount.denomination),
         ref |-> toString(action.amount.ref),
         value |-> toString(action.amount.value)],
     primaryMarketId |-> toString(action.primaryMarketId),
     secondaryMarketId |-> toString(action.secondaryMarketId),
     otherAddress |-> toStringOfAddress(action.otherAddress),
     otherAccountOwner |-> action.secondaryAccountOwner,
     otherAccountNumber |-> toString(action.secondaryAccountNumber),
     data |-> action.data]

typedData(self, op) ==
    [types |->
        [EIP712Domain |-> EIP712_DOMAIN_STRUCT,
         Operation |-> EIP712_OPERATION_STRUCT,
         Action |-> EIP712_ACTION_STRUCT,
         AssetAmount |-> EIP712_ASSET_AMOUNT_STRUCT],
     domain |->
        [name |-> "SignedOperationProxy",
         version |-> "1.0",
         chainId |-> networkId[self],
         verifyingContract |-> proxyAddress[self]],
     primaryType |-> "Operation",
     message |->
        [actions |-> [i \in DOMAIN op.actions |-> actionData(op.actions[i])],
         expiration |-> toFixed0(op.expiration),
         salt |-> toFixed0(op.salt),
         sender |-> op.sender]]

---------------------------------------------------------------------------
(* Signing *)

hashVars == <<networkId, proxyAddress, operation, digests, domainLog>>

ErrorMessages == {"User denied message signature"}

\* a call that threw before reaching the external signer
FailBeforeRequest(method, self, op) ==
    /\ outcome' = [method |-> method, self |-> self, op |-> op, requests |-> 0,
                   result |-> Raise("TypeError")]
    /\ UNCHANGED <<pc, call, request, requests, signed, previous>>

\* web3.eth.sign(hash, signer) is issued and awaited; op is the operation the
\* hash was computed from, with the signer asked for
AwaitEthSign(method, kind, self, op, hash) ==
    /\ call' = [method |-> method, self |-> self, op |-> op, kind |-> kind]
    /\ request' = [method |-> "eth_sign", data |-> hash, account |-> op.signer]
    /\ requests' = requests + 1
    /\ pc' = "awaitSign"
    /\ outcome' = NoOutcome
    /\ UNCHANGED <<signed, previous>>

ethSignOperation(self, op) ==
    /\ pc = "idle"
    /\ LET hash == getOperationHash(self, op)
       IN  IF hash = Throw
           THEN FailBeforeRequest("ethSignOperation", self, op)
           ELSE AwaitEthSign("ethSignOperation", "operation", self, op, hash)
    /\ UNCHANGED hashVars

\* the caller passes the hash of operation `of` and the signer to ask
ethSignCancelOperationByHash(self, operationHash, signer, of) ==
    /\ pc = "idle"
    /\ LET cancelHash == operationHashToCancelOperationHash(operationHash)
       IN  AwaitEthSign("ethSignCancelOperationByHash", "cancel", self,
                        [of EXCEPT !.signer = signer], cancelHash)
    /\ UNCHANGED hashVars

ethSignCancelOperation(self, op) ==
    /\ pc = "idle"
    /\ LET operationHash == getOperationHash(self, op)
       IN  IF operationHash = Throw
           THEN FailBeforeRequest("ethSignCancelOperation", self, op)
           ELSE AwaitEthSign("ethSignCancelOperation", "cancel", self, op,
                             operationHashToCancelOperationHash(operationHash))
    /\ UNCHANGED hashVars

\* the awaited call is over: its result goes to the caller with the number of
\* requests it issued, and nothing is in flight
Finish(result) ==
    /\ outcome' = [method |-> call.method, self |-> call.self, op |-> call.op,
                   requests |-> requests, result |-> result]
    /\ pc' = "idle"
    /\ call' = NoCall
    /\ request' = NoRequest
    /\ requests' = 0

\* the external signer answers web3.eth.sign with a signature by one of its
\* keys over the personal-message digest of the data
EthSignResolves(k) ==
    /\ pc = "awaitSign"
    /\ LET signature == RawSignature(k, PrependedHash(PREPEND_DEC, request.data))
           typedSignature == createTypedSignature(signature, "DECIMAL")
       IN  /\ Finish(Return(typedSignature))
           /\ signed' = [kind |-> call.kind, self |-> call.self, op |-> call.op,
                         key |-> k, typedSignature |-> typedSignature]
    /\ UNCHANGED previous
    /\ UNCHANGED hashVars

\* the external signer refuses: the promise rejects with its error
EthSignRejects(msg) ==
    /\ pc = "awaitSign"
    /\ Finish(Raise(msg))
    /\ UNCHANGED <<signed, previous>>
    /\ UNCHANGED hashVars

ethSignTypedOperationInternal(self, op, rpcMethod, method) ==
    /\ pc = "idle"
    /\ \E t \in 1..MaxTime :
        request' = [method |-> rpcMethod,
                    params |-> <<op.signer, typedData(self, op)>>,
                    jsonrpc |-> "2.0",
                    id |-> t]
    /\ call' = [method |-> method, self |-> self, op |-> op, kind |-> "typed"]
    /\ requests' = requests + 1
    /\ pc' = "awaitTyped"
    /\ outcome' = NoOutcome
    /\ UNCHANGED <<signed, previous>>
    /\ UNCHANGED hashVars

ethSignTypedOperationWithMetamask(self, op) ==
    ethSignTypedOperationInternal(self, op, "eth_signTypedData_v3",
                                  "ethSignTypedOperationWithMetamask")

ethSignTypedOperation(self, op) ==
    ethSignTypedOperationInternal(self, op, "eth_signTypedData",
                                  "ethSignTypedOperation")

\* the structured-data request that was just answered, and the call it was for
AnsweredRequest ==
    [method |-> request.method, params |-> request.params,
     jsonrpc |-> request.jsonrpc, self |-> call.self, op |-> call.op]

\* the provider's answer: a response that carries an error or a result
TypedResponses ==
    {[isError |-> TRUE, message |-> m, result |-> Malformed] : m \in ErrorMessages}
    \cup {[isError |-> FALSE, message |-> "",
           result |-> RawSignature(k, <<"eip712", request.params[2]>>)] : k \in Keys}

TypedResponds(response) ==
    /\ pc = "awaitTyped"
    /\ Finish(IF response.isError
              THEN Raise(response.message)
              ELSE Return([raw |-> response.result, tag |-> "NO_PREPEND"]))
    /\ previous' = AnsweredRequest
    /\ UNCHANGED signed
    /\ UNCHANGED hashVars

\* the provider calls back with an error: the promisified send rejects
TypedSendFails(msg) ==
    /\ pc = "awaitTyped"
    /\ Finish(Raise(msg))
    /\ previous' = AnsweredRequest
    /\ UNCHANGED signed
    /\ UNCHANGED hashVars

---------------------------------------------------------------------------
(* Calls of the verification predicates *)

Verified(method, self, op, typedSignature, result) ==
    /\ pc = "idle"
    /\ outcome' = [method |-> method, self |-> self, op |-> op, requests |-> 0,
                   typedSignature |-> typedSignature, result |-> result]
    /\ UNCHANGED <<pc, call, request, requests, signed, previous>>
    /\ UNCHANGED hashVars

VerifyOperation(self, op, typedSignature) ==
    Verified("operationHasValidSignature", self, op, typedSignature,
             operationHasValidSignature(
                 self, [op |-> op, typedSignature |-> typedSignature,
                        actions |-> op.actions, expiration |-> op.expiration,
                        salt |-> op.salt, sender |-> op.sender, signer |-> op.signer]))

\* op is the operation whose hash the caller passes, with the expected signer
VerifyOperationByHash(self, op, typedSignature) ==
    /\ getOperationHash(self, op) # Throw
    /\ Verified("operationByHashHasValidSignature", self, op, typedSignature,
                operationByHashHasValidSignature(
                    getOperationHash(self, op), typedSignature, op.signer))

VerifyCancel(self, op, typedSignature) ==
    Verified("cancelOperationHasValidSignature", self, op, typedSignature,
             cancelOperationHasValidSignature(self, op, typedSignature))

VerifyCancelByHash(self, op, typedSignature) ==
    /\ getOperationHash(self, op) # Throw
    /\ Verified("cancelOperationByHashHasValidSignature", self, op, typedSignature,
                cancelOperationByHashHasValidSignature(
                    getOperationHash(self, op), typedSignature, op.signer))

---------------------------------------------------------------------------
(* Signing with web3.eth.sign, and verification: SpecSign *)

RECURSIVE Prefix(_)
\* the first n of Action1, Action2, Action1, ...
Prefix(n) ==
    IF n = 0 THEN <<>>
    ELSE Append(Prefix(n - 1), IF n % 2 = 1 THEN Action1 ELSE Action2)

PrefixLists == {Prefix(n) : n \in 0..MaxActions}

SignerAddresses == {Lower(1), [val |-> 1, cs |-> "mixed"], Lower(NumAddr)}

SignOps ==
    {[actions |-> l, expiration |-> 0, salt |-> 0, sender |-> Lower(0), signer |-> a] :
        l \in PrefixLists, a \in SignerAddresses}

\* the operation as signed, or with one field altered afterwards
Alterations(op) ==
    {op}
    \cup {[op EXCEPT !.expiration = 1 - @]}
    \cup {[op EXCEPT !.salt = 1 - @]}
    \cup {[op EXCEPT !.sender = Lower(1)]}
    \cup {[op EXCEPT !.actions = l] : l \in PrefixLists}
    \cup {[op EXCEPT !.signer = a] : a \in SignerAddresses}

\* the typed signature as obtained, with its tag replaced, or with its
\* signature bytes damaged
Retagged(typedSignature) ==
    {[typedSignature EXCEPT !.tag = "NO_PREPEND"],
     [typedSignature EXCEPT !.tag = "UNSUPPORTED"],
     [typedSignature EXCEPT !.raw = Malformed]}

\* what a verifier is handed: the signature last obtained with the operation,
\* as signed or altered, or the operation as signed with the signature changed
Presented ==
    {<<op, signed.typedSignature>> : op \in Alterations(signed.op)}
    \cup {<<signed.op, ts>> : ts \in Retagged(signed.typedSignature)}

CallVerifyOperation ==
    /\ signed.kind # "none"
    /\ \E self \in Instances, p \in Presented : VerifyOperation(self, p[1], p[2])

CallVerifyOperationByHash ==
    /\ signed.kind # "none"
    /\ \E self \in Instances, p \in Presented : VerifyOperationByHash(self, p[1], p[2])

CallVerifyCancel ==
    /\ signed.kind # "none"
    /\ \E self \in Instances, p \in Presented : VerifyCancel(self, p[1], p[2])

CallVerifyCancelByHash ==
    /\ signed.kind # "none"
    /\ \E self \in Instances, p \in Presented : VerifyCancelByHash(self, p[1], p[2])

InitSign ==
    /\ networkId = [self \in Instances |-> self]
    /\ proxyAddress = [self \in Instances |-> Lower(1)]
    /\ operation = [self \in Instances |->
                       [actions |-> <<>>, expiration |-> 0, salt |-> 0,
                        sender |-> Lower(0), signer |-> Lower(1)]]
    /\ digests = [self \in Instances |-> NoDigests]
    /\ domainLog = <<>>
    /\ IdleSign

NextSign ==
    \/ \E op \in SignOps : ethSignOperation(1, op)
    \/ \E op \in SignOps : ethSignCancelOperation(1, op)
    \/ \E op \in SignOps :
          /\ getOperationHash(1, op) # Throw
          /\ ethSignCancelOperationByHash(1, getOperationHash(1, op), op.signer, op)
    \/ \E k \in Keys : EthSignResolves(k)
    \/ \E msg \in ErrorMessages : EthSignRejects(msg)
    \/ CallVerifyOperation
    \/ CallVerifyOperationByHash
    \/ CallVerifyCancel
    \/ CallVerifyCancelByHash

SpecSign == InitSign /\ [][NextSign]_vars

---------------------------------------------------------------------------
(* Structured-data signing: SpecTyped *)

TypedOps ==
    {[actions |-> l, expiration |-> e, salt |-> 1, sender |-> s,
      signer |-> [val |-> 1, cs |-> "mixed"]] :
        l \in PrefixLists, e \in {0, BigUint},
        s \in {Lower(0), [val |-> NumAddr, cs |-> "mixed"]}}

InitTyped ==
    /\ networkId \in [Instances -> NetworkIds]
    /\ proxyAddress = [self \in Instances |->
                          IF self = 1 THEN Lower(1) ELSE [val |-> 1, cs |-> "mixed"]]
    /\ operation = [self \in Instances |->
                       [actions |-> <<>>, expiration |-> 0, salt |-> 0,
                        sender |-> Lower(0), signer |-> Lower(1)]]
    /\ digests = [self \in Instances |-> NoDigests]
    /\ domainLog = <<>>
    /\ IdleSign

NextTyped ==
    \/ \E self \in Instances, op \in TypedOps : ethSignTypedOperation(self, op)
    \/ \E self \in Instances, op \in TypedOps : ethSignTypedOperationWithMetamask(self, op)
    \/ pc = "awaitTyped" /\ \E response \in TypedResponses : TypedResponds(response)
    \/ \E msg \in ErrorMessages : TypedSendFails(msg)

SpecTyped == InitTyped /\ [][NextTyped]_vars

---------------------------------------------------------------------------
(* Claims about the hashing functions, under SpecHash *)

BothHashed == digests[1] # NoDigests /\ digests[2] # NoDigests

SameDomain ==
    /\ networkId[1] = networkId[2]
    /\ proxyAddress[1].val = proxyAddress[2].val

\* the content of an action that the contract sees: addresses by value
ActionContent(a) ==
    [a EXCEPT !.primaryAccountOwner = a.primaryAccountOwner.val,
              !.otherAddress = a.otherAddress.val,
              !.secondaryAccountOwner = a.secondaryAccountOwner.val]

\* the hashed payload of an operation: everything but the signer
HashedPayload(op) ==
    [actions |-> [i \in DOMAIN op.actions |-> ActionContent(op.actions[i])],
     expiration |-> op.expiration, salt |-> op.salt, sender |-> op.sender.val]

\* C3: two operations that agree on actions, expiration, salt and sender and
\* differ at most in signer get the same result from getOperationHash under
\* the same domain configuration.
C3_SignerNotHashed ==
    (BothHashed /\ SameDomain
        /\ operation[1].actions = operation[2].actions
        /\ operation[1].expiration = operation[2].expiration
        /\ operation[1].salt = operation[2].salt
        /\ operation[1].sender = operation[2].sender)
    => digests[1].operationHash = digests[2].operationHash

C3_Witness ==
    /\ BothHashed /\ SameDomain
    /\ HashedPayload(operation[1]) = HashedPayload(operation[2])
    /\ operation[1].signer.val # operation[2].signer.val
    /\ IsDigest(digests[1].operationHash)
    /\ digests[1].operationHash = digests[2].operationHash

\* C4: two operations that differ in a hashed field (a field of an action,
\* the number or order of the actions, expiration, salt, sender) get
\* different digests from getOperationHash under the same domain
\* configuration, and two action lists that differ get different digests
\* from getActionsHash.
C4_Sensitivity ==
    (BothHashed /\ SameDomain
        /\ HashedPayload(operation[1]) # HashedPayload(operation[2]))
    => /\ IsDigest(digests[1].operationHash)
       /\ IsDigest(digests[2].operationHash)
       /\ digests[1].operationHash # digests[2].operationHash
       /\ (HashedPayload(operation[1]).actions # HashedPayload(operation[2]).actions
            => digests[1].actionsHash # digests[2].actionsHash)

\* what does hold of the code: the same, for operations with at least one action
C4_SensitivityNonEmpty ==
    (BothHashed /\ SameDomain
        /\ operation[1].actions # <<>> /\ operation[2].actions # <<>>
        /\ HashedPayload(operation[1]) # HashedPayload(operation[2]))
    => /\ IsDigest(digests[1].operationHash)
       /\ IsDigest(digests[2].operationHash)
       /\ digests[1].operationHash # digests[2].operationHash
       /\ (HashedPayload(operation[1]).actions # HashedPayload(operation[2]).actions
            => digests[1].actionsHash # digests[2].actionsHash)

\* C5: two instances with different network ids or different
\* signedOperationProxy addresses return different getOperationHash digests
\* for the same operation.
C5_DomainIsolation ==
    (BothHashed /\ ~SameDomain
        /\ HashedPayload(operation[1]) = HashedPayload(operation[2]))
    => /\ IsDigest(digests[1].operationHash)
       /\ IsDigest(digests[2].operationHash)
       /\ digests[1].operationHash # digests[2].operationHash

C5_DomainIsolationNonEmpty ==
    (BothHashed /\ ~SameDomain /\ operation[1].actions # <<>>
        /\ HashedPayload(operation[1]) = HashedPayload(operation[2]))
    => /\ IsDigest(digests[1].operationHash)
       /\ IsDigest(digests[2].operationHash)
       /\ digests[1].operationHash # digests[2].operationHash

\* C8: each of the five hashing functions returns a digest, never null and
\* never an exception, for every operation, the one with no actions included.
C8_HashingTotal ==
    \A self \in Instances :
        digests[self] # NoDigests =>
            /\ IsDigest(digests[self].operationHash)
            /\ IsDigest(digests[self].actionsHash)
            /\ IsDigest(digests[self].domainHash)
            /\ \A i \in DOMAIN digests[self].actionHashes :
                    /\ IsDigest(digests[self].actionHashes[i])
                    /\ IsDigest(digests[self].amountHashes[i])

C8_HashingTotalNonEmpty ==
    \A self \in Instances :
        (digests[self] # NoDigests /\ operation[self].actions # <<>>) =>
            /\ IsDigest(digests[self].operationHash)
            /\ IsDigest(digests[self].actionsHash)
            /\ IsDigest(digests[self].domainHash)
            /\ \A i \in DOMAIN digests[self].actionHashes :
                    /\ IsDigest(digests[self].actionHashes[i])
                    /\ IsDigest(digests[self].amountHashes[i])

\* the golden-fixture operation: no actions, expiration 0, salt 0, zero sender
C8_EmptyActionsFails ==
    \A self \in Instances :
        (digests[self] # NoDigests /\ operation[self].actions = <<>>) =>
            /\ digests[self].actionsHash = Null
            /\ digests[self].operationHash = Throw
            /\ IsDigest(digests[self].domainHash)

---------------------------------------------------------------------------
(* Claims about signing with web3.eth.sign and verification, under SpecSign *)

VerifyMethods ==
    {"operationHasValidSignature", "operationByHashHasValidSignature",
     "cancelOperationHasValidSignature", "cancelOperationByHashHasValidSignature"}

OperationVerifyMethods ==
    {"operationHasValidSignature", "operationByHashHasValidSignature"}

CancelVerifyMethods ==
    {"cancelOperationHasValidSignature", "cancelOperationByHashHasValidSignature"}

EthSignMethods ==
    {"ethSignOperation", "ethSignCancelOperation", "ethSignCancelOperationByHash"}

SigningMethods ==
    EthSignMethods \cup {"ethSignTypedOperation", "ethSignTypedOperationWithMetamask"}

Returned(v) == ~outcome.result.threw /\ outcome.result.value = v

\* a verification, on the signing instance, of the signature as obtained
VerifiedAsSigned(methods, kind) ==
    /\ outcome.method \in methods
    /\ signed.kind = kind
    /\ outcome.self = signed.self
    /\ outcome.typedSignature = signed.typedSignature

\* the signer of the presented operation is the account whose key signed
KeyOfSigner == signed.key = outcome.op.signer.val

\* C1: ethSignOperation(op) yields a typed signature unless the external
\* signer refuses, and operationHasValidSignature on op with that signature
\* returns true when the key of op.signer signed, false when another key
\* did, and false when a hashed field of op was altered after signing.
C1_SignVerifyRoundTrip ==
    /\ (outcome.method = "ethSignOperation" /\ outcome.result.threw)
            => outcome.requests = 1
    /\ VerifiedAsSigned({"operationHasValidSignature"}, "operation") =>
          /\ (HashedPayload(outcome.op) = HashedPayload(signed.op) /\ KeyOfSigner)
                => Returned(TRUE)
          /\ ~KeyOfSigner => Returned(FALSE)
          /\ HashedPayload(outcome.op) # HashedPayload(signed.op) => Returned(FALSE)

\* what does hold of the code: the same, for operations with at least one action
C1_RoundTripNonEmpty ==
    /\ (outcome.method = "ethSignOperation" /\ outcome.result.threw
            /\ outcome.op.actions # <<>>)
            => outcome.requests = 1
    /\ (VerifiedAsSigned({"operationHasValidSignature"}, "operation")
            /\ outcome.op.actions # <<>>) =>
          /\ (HashedPayload(outcome.op) = HashedPayload(signed.op) /\ KeyOfSigner)
                => Returned(TRUE)
          /\ ~KeyOfSigner => Returned(FALSE)
          /\ HashedPayload(outcome.op) # HashedPayload(signed.op) => Returned(FALSE)

\* C2: the cancel hash of an operation differs from its operation hash;
\* ethSignCancelOperation(op) yields a typed signature unless the external
\* signer refuses; that signature is accepted by
\* cancelOperationHasValidSignature and rejected by
\* operationHasValidSignature for the same op and signer, and a signature
\* from ethSignOperation(op) is rejected by cancelOperationHasValidSignature.
C2_CancelIsolation ==
    /\ (outcome.method = "ethSignCancelOperation" /\ outcome.result.threw)
            => outcome.requests = 1
    /\ (pc = "awaitSign" /\ call.kind = "cancel") =>
          /\ IsDigest(request.data)
          /\ request.data # getOperationHash(call.self, call.op)
    /\ (VerifiedAsSigned({"cancelOperationHasValidSignature"}, "cancel")
            /\ outcome.op = signed.op /\ KeyOfSigner) => Returned(TRUE)
    /\ (VerifiedAsSigned({"operationHasValidSignature"}, "cancel")
            /\ outcome.op = signed.op) => Returned(FALSE)
    /\ (VerifiedAsSigned({"cancelOperationHasValidSignature"}, "operation")
            /\ outcome.op = signed.op) => Returned(FALSE)

C2_CancelIsolationNonEmpty ==
    /\ (outcome.method = "ethSignCancelOperation" /\ outcome.result.threw
            /\ outcome.op.actions # <<>>)
            => outcome.requests = 1
    /\ (pc = "awaitSign" /\ call.kind = "cancel") =>
          /\ IsDigest(request.data)
          /\ request.data # getOperationHash(call.self, call.op)
    /\ (VerifiedAsSigned({"cancelOperationHasValidSignature"}, "cancel")
            /\ outcome.op = signed.op /\ KeyOfSigner) => Returned(TRUE)
    /\ (VerifiedAsSigned(OperationVerifyMethods, "cancel")
            /\ outcome.op = signed.op) => Returned(FALSE)
    /\ (VerifiedAsSigned(CancelVerifyMethods, "operation")
            /\ outcome.op = signed.op) => Returned(FALSE)

\* the digest a verification method recovers over, for the presented operation
DigestVerified ==
    LET operationHash == getOperationHash(outcome.self, outcome.op)
        hash == IF outcome.method \in CancelVerifyMethods
                THEN operationHashToCancelOperationHash(operationHash)
                ELSE operationHash
    IN  CASE outcome.typedSignature.tag = "NO_PREPEND" -> hash
          [] outcome.typedSignature.tag = "DECIMAL" -> PrependedHash(PREPEND_DEC, hash)
          [] outcome.typedSignature.tag = "HEXADECIMAL" -> PrependedHash(PREPEND_HEX, hash)

WellFormed(typedSignature) ==
    typedSignature.raw # Malformed /\ typedSignature.tag \in SIGNATURE_TYPES

\* C6: a verification predicate handed a well-formed typed signature with a
\* supported tag returns a boolean, true exactly when the address recovered
\* is the expected signer whatever the letter case; it throws only for a
\* malformed signature or an unrecognised tag.
C6_VerifyNeverThrowsOnMismatch ==
    outcome.method \in VerifyMethods =>
        IF WellFormed(outcome.typedSignature)
        THEN /\ ~outcome.result.threw
             /\ outcome.result.value \in BOOLEAN
             /\ outcome.result.value =
                    (/\ outcome.typedSignature.raw[3] = DigestVerified
                     /\ outcome.typedSignature.raw[2] = outcome.op.signer.val)
        ELSE outcome.result.threw

C6_VerifyNonEmpty ==
    (outcome.method \in VerifyMethods /\ outcome.op.actions # <<>>) =>
        IF WellFormed(outcome.typedSignature)
        THEN /\ ~outcome.result.threw
             /\ outcome.result.value \in BOOLEAN
             /\ outcome.result.value =
                    (/\ outcome.typedSignature.raw[3] = DigestVerified
                     /\ outcome.typedSignature.raw[2] = outcome.op.signer.val)
        ELSE /\ outcome.result.threw
             /\ outcome.result.error \in {"InvalidSignature", "UnsupportedSignatureType"}

\* C7: a signing call issues exactly one request to the external signer, and
\* fails only with the message of the signer's error, having issued that one
\* request and returning no typed signature.
C7_OneRequestNoRetry ==
    /\ requests <= 1
    /\ pc # "idle" => requests = 1
    /\ outcome.method \in SigningMethods =>
          /\ outcome.requests = 1
          /\ outcome.result.threw => outcome.result.error \in ErrorMessages

C7_OneRequestNonEmpty ==
    /\ requests <= 1
    /\ pc # "idle" => requests = 1
    /\ (outcome.method \in SigningMethods /\ outcome.op.actions # <<>>) =>
          /\ outcome.requests = 1
          /\ outcome.result.threw => outcome.result.error \in ErrorMessages

---------------------------------------------------------------------------
(* Claims about the structured-data request, under SpecTyped *)

IsCanonicalDecimal(s, n) ==
    LET d == s.digits
    IN  /\ Len(d) >= 1
        /\ \A i \in DOMAIN d : d[i] \in 0..9
        /\ Len(d) > 1 => d[1] # 0
        /\ ParseDec(d) = n

RpcMethodOf(method) ==
    IF method = "ethSignTypedOperationWithMetamask"
    THEN "eth_signTypedData_v3" ELSE "eth_signTypedData"

\* what the claim and its amendment share: the framing, the domain, the
\* fields of the message, the integer fields, and the two variants
TypedRequestFrame(data, op) ==
    /\ request.method = RpcMethodOf(call.method)
    /\ request.params[1] = op.signer
    /\ data.primaryType = "Operation"
    /\ data.domain = [name |-> "SignedOperationProxy", version |-> "1.0",
                      chainId |-> networkId[call.self],
                      verifyingContract |-> proxyAddress[call.self]]
    /\ DOMAIN data.message = {"actions", "expiration", "salt", "sender"}
    /\ IsCanonicalDecimal(data.message.expiration, op.expiration)
    /\ IsCanonicalDecimal(data.message.salt, op.salt)
    /\ Len(data.message.actions) = Len(op.actions)
    /\ \A i \in DOMAIN op.actions :
          LET m == data.message.actions[i]
              a == op.actions[i]
          IN  /\ DOMAIN m = {"actionType", "accountOwner", "accountNumber",
                             "assetAmount", "primaryMarketId", "secondaryMarketId",
                             "otherAddress", "otherAccountOwner",
                             "otherAccountNumber", "data"}
              /\ IsCanonicalDecimal(m.actionType, a.actionType)
              /\ IsCanonicalDecimal(m.accountNumber, a.primaryAccountNumber)
              /\ m.assetAmount.sign = a.amount.sign
              /\ IsCanonicalDecimal(m.assetAmount.denomination, a.amount.denomination)
              /\ IsCanonicalDecimal(m.assetAmount.ref, a.amount.ref)
              /\ IsCanonicalDecimal(m.assetAmount.value, a.amount.value)
              /\ IsCanonicalDecimal(m.primaryMarketId, a.primaryMarketId)
              /\ IsCanonicalDecimal(m.secondaryMarketId, a.secondaryMarketId)
              /\ IsCanonicalDecimal(m.otherAccountNumber, a.secondaryAccountNumber)
              /\ m.data = a.data
    /\ (previous.method # "none" /\ previous.self = call.self /\ previous.op = op)
          => /\ previous.params = request.params
             /\ previous.jsonrpc = request.jsonrpc

---------------------------------------------------------------------------
(* The domain hash under changes of configuration: SpecDomain *)

\* the two most recent entries of a log
LastTwo(log) == IF Len(log) <= 2 THEN log ELSE SubSeq(log, Len(log) - 1, Len(log))

\* a direct call of getDomainHash, logged with the configuration it ran under
GetDomainHash(self) ==
    /\ domainLog' = LastTwo(Append(domainLog,
                        [networkId    |-> networkId[self],
                         proxyAddress |-> proxyAddress[self],
                         domainHash   |-> getDomainHash(self)]))
    /\ UNCHANGED <<networkId, proxyAddress, operation, digests, signVars>>

DomainOp ==
    [actions |-> Prefix(1), expiration |-> 0, salt |-> 0,
     sender |-> Lower(0), signer |-> Lower(1)]

DomainProxyAddresses == {Lower(1), [val |-> 1, cs |-> "mixed"], Lower(NumAddr)}

InitDomain ==
    /\ networkId = [self \in Instances |-> 1]
    /\ proxyAddress = [self \in Instances |-> Lower(1)]
    /\ operation = [self \in Instances |-> DomainOp]
    /\ digests = [self \in Instances |-> NoDigests]
    /\ domainLog = <<>>
    /\ IdleSign

NextDomain ==
    \/ \E nid \in NetworkIds : Construct(1, nid)
    \/ \E a \in DomainProxyAddresses : SetProxyAddress(1, a)
    \/ \E self \in Instances : GetDomainHash(self)
    \/ HashOperation(1)
    \/ ethSignOperation(1, DomainOp)
    \/ EthSignResolves(1)
    \/ \E msg \in ErrorMessages : EthSignRejects(msg)
    \/ signed.kind # "none" /\ VerifyOperation(1, signed.op, signed.typedSignature)
    \/ signed.kind # "none" /\ VerifyCancel(1, signed.op, signed.typedSignature)

SpecDomain == InitDomain /\ [][NextDomain]_vars

SameConfiguration(e1, e2) ==
    /\ e1.networkId = e2.networkId
    /\ e1.proxyAddress.val = e2.proxyAddress.val

\* any two getDomainHash results are equal exactly when the network id and
\* the contract address they were computed under are equal
DomainHashFollowsConfiguration ==
    \A i, j \in DOMAIN domainLog :
        /\ IsDigest(domainLog[i].domainHash)
        /\ (domainLog[i].domainHash = domainLog[j].domainHash)
               <=> SameConfiguration(domainLog[i], domainLog[j])

\* a step of a hashing, verification or signing call
IsCall ==
    \/ signVars' # signVars
    \/ domainLog' # domainLog
    \/ \E self \in Instances :
          digests'[self] # digests[self] /\ digests'[self] # NoDigests

CallsKeepConfiguration == IsCall => UNCHANGED <<networkId, proxyAddress>>

\* C10: whatever hashing, verification and signing calls and changes of the
\* network id or proxy address came before, getDomainHash returns a digest
\* fixed by the network id and contract address current at the call: equal
\* for equal configurations, different for different ones, never one kept
\* from an earlier configuration; and no call changes the configuration.
C10_DomainHashCurrent ==
    /\ []DomainHashFollowsConfiguration
    /\ [][CallsKeepConfiguration]_vars

\* two calls with a change of configuration between them, after a signature
\* was obtained and verified and the operation hashed
C10_Witness ==
    /\ Len(domainLog) = 2
    /\ ~SameConfiguration(domainLog[1], domainLog[2])
    /\ domainLog[1].networkId # domainLog[2].networkId
    /\ domainLog[2].networkId = networkId[1]
    /\ domainLog[2].proxyAddress = proxyAddress[1]
    /\ domainLog[2].proxyAddress.cs = "mixed"
    /\ outcome.method = "operationHasValidSignature"
    /\ digests[1] # NoDigests

=============================================================================
